---- MODULE Spec2Model ----
(***************************************************************************)
(* The HA controller of icingadb (package icingadb_ha_lib): the per-replica *)
(* responsibility state machine HA.run, the election and cease             *)
(* transactions on the table icingadb_instance, the critical-operation     *)
(* gate HA.RunCriticalOperation, the upstream heartbeat and the sweeper    *)
(* cleanUpInstances.  Time is time.Now().Unix(), in whole seconds.          *)
(***************************************************************************)
EXTENDS Integers, FiniteSets, TLC

\* ------------------------------------------------------------------ bounds
\* The clock runs from Epoch to Epoch + MaxTime.
MaxTime == 21
\* Unix time at which the model starts (any value > 0: time.Time{} is 0).
Epoch == 40
\* Age, at Epoch, of the heartbeat of the row a dead replica left behind.
ZAge == 10
\* Disturbances of a run: an environment update, an upstream that stops
\* calling Icinga2HeartBeat, a transaction held up for whole seconds.
MaxFaults == 1
\* Goroutines calling RunCriticalOperation.
MaxCallers == 1
\* The first environment reaches a controller at most this long after Epoch.
StartWindow == 1
\* The count of seconds since the last change of a responsibility or of an
\* environment stops at ConvergeTime, the time by which the replicas are to
\* have converged.
ConvergeTime == 11

\* ------------------------------------------------------- program constants
readyForTakeover == 0
TakeoverNoSync == 1
TakeoverSync == 2
stop == 3
notReadyForTakeover == 4

noAction == 0
tryTakeover == 1
doTakeover == 2
ceaseOperation == 3

\* icinga2IsAlive: now - icinga2MTime < 15
AliveThreshold == 15
\* election: now - heartbeat >= 10 makes an incumbent stale; cease: < 10 is fresh
StaleThreshold == 10
\* post-commit: responsibleFor >= 5.0
ConfirmWindow == 5
\* case stop: now - lastCriticalOperationEnd >= 5
SettleDelay == 5
\* cleanUpInstances: ? - heartbeat >= 30
ExpiryHorizon == 30

\* ------------------------------------------------------------------- sets
\* The replicas whose controller loop is modelled; their name is ourUUID.
Replicas == {"A", "B"}
\* A replica of an earlier process start: it is dead, its row is left behind.
Dead == "Z"
Ids == Replicas \cup {Dead}
Envs == {"E1", "E2"}
NoEnv == "nil"
\* Goroutines calling RunCriticalOperation, and the replica each belongs to.
Callers == 1 .. MaxCallers
GateOf(c) == "A"

NoRow == [environment_id |-> NoEnv, heartbeat |-> 0, responsible |-> "-"]

\* The errors an op callback may return (nil is success), and the value of
\* a result that does not exist yet.
OpResults == {"nil", "errOp"}
NoResult == "-"

VARIABLES
  now,                        \* time.Now().Unix()
  pc,                         \* position of each controller loop in HA.run
  env,                        \* env.ID of each controller
  responsibility,             \* HA.responsibility
  responsibleSince,           \* HA.responsibleSince (0 is time.Time{})
  icinga2MTime,               \* HA.icinga2MTime
  runningCriticalOperations,  \* HA.runningCriticalOperations
  lastCriticalOperationEnd,   \* HA.lastCriticalOperationEnd
  nextAction,                 \* local nextAction of HA.run
  tick,                       \* everySecond.C holds a tick (buffer of one)
  icingadb_instance,          \* the table: id -> row, or NoRow
  published,                  \* a wakeup was published by the current tick
  cpc,                        \* position of each caller in RunCriticalOperation
  opEnd,                      \* the time each caller recorded at line 67
  countedUnderSync,           \* the caller's op was counted in TakeoverSync
  sinceChange,                \* seconds since the last change of any
                              \* responsibility or environment, up to
                              \* ConvergeTime
  upstream,                   \* the upstream of each replica is running
  blocked,                    \* the loop is held up in its transaction
  faults,                     \* disturbances so far, by kind
  closed,                     \* chEnv of each controller is closed
  opErr,                      \* what op returned to each caller (line 65)
  ret,                        \* what RunCriticalOperation returned
  atBoundary                  \* the responsibility at the end of the last
                              \* iteration, that is before the current tick

vars == <<now, pc, env, responsibility, responsibleSince, icinga2MTime,
          runningCriticalOperations, lastCriticalOperationEnd, nextAction,
          tick, icingadb_instance, published, cpc, opEnd, countedUnderSync,
          sinceChange, upstream, blocked, faults, closed, opErr, ret,
          atBoundary>>

envVars == <<upstream, blocked, faults, closed>>
ctlVars == <<pc, env, responsibility, responsibleSince, nextAction, published,
             sinceChange, atBoundary>>
gateVars == <<runningCriticalOperations, lastCriticalOperationEnd, cpc, opEnd,
              countedUnderSync, opErr, ret>>

Init ==
  /\ now = Epoch
  /\ pc = [r \in Replicas |-> "init"]
  /\ env = [r \in Replicas |-> NoEnv]
  /\ responsibility = [r \in Replicas |-> readyForTakeover]
  /\ responsibleSince = [r \in Replicas |-> 0]
  /\ icinga2MTime = [r \in Replicas |-> 0]
  /\ runningCriticalOperations = [r \in Replicas |-> 0]
  /\ lastCriticalOperationEnd = [r \in Replicas |-> 0]
  /\ nextAction = [r \in Replicas |-> noAction]
  /\ tick = [r \in Replicas |-> FALSE]
  /\ icingadb_instance =
       [i \in Ids |-> IF i = Dead
                      THEN [environment_id |-> "E1", heartbeat |-> Epoch - ZAge,
                            responsible |-> "y"]
                      ELSE NoRow]
  /\ published = [r \in Replicas |-> FALSE]
  /\ cpc = [c \in Callers |-> "idle"]
  /\ opEnd = [c \in Callers |-> 0]
  /\ countedUnderSync = [c \in Callers |-> FALSE]
  /\ sinceChange = 0
  /\ upstream = [r \in Replicas |-> TRUE]
  /\ blocked = [r \in Replicas |-> FALSE]
  /\ faults = [env |-> 0, outage |-> 0, stall |-> 0]
  /\ closed = [r \in Replicas |-> FALSE]
  /\ opErr = [c \in Callers |-> NoResult]
  /\ ret = [c \in Callers |-> NoResult]
  /\ atBoundary = [r \in Replicas |-> readyForTakeover]

\* ------------------------------------------------------------ pure helpers
Disturbances == faults.env + faults.outage + faults.stall

\* HA.run has returned: nil ("ok") or an error ("err").
Returned(r) == pc[r] \in {"ok", "err"}

\* Mutant: the threshold itself still counts as alive.
icinga2IsAlive_Inclusive(r) == now - icinga2MTime[r] <= AliveThreshold

\* icinga2IsAlive (line 416)
icinga2IsAlive(r) == now - icinga2MTime[r] < AliveThreshold

\* Icinga2HeartBeat (line 77)
Icinga2HeartBeat(r) == [icinga2MTime EXCEPT ![r] = now]

\* IsResponsible
IsResponsible(r) == responsibility[r] = TakeoverSync

\* setResponsibility, with the time of a change kept for the convergence claim
setResponsibility(r, s) ==
  /\ responsibility' = [responsibility EXCEPT ![r] = s]
  /\ sinceChange' = IF responsibility[r] # s THEN 0 ELSE sinceChange

\* Mutant: the drain check without the settling delay.
Drained_NoSettle(r) == runningCriticalOperations[r] = 0

\* case stop: the drain check of line 198
Drained(r) ==
  /\ runningCriticalOperations[r] = 0
  /\ now - lastCriticalOperationEnd[r] >= SettleDelay

\* SELECT 1 WHERE id = ?; UPDATE environment_id, heartbeat / INSERT ... 'n'
Upsert(reg, self, e, t) ==
  IF reg[self] # NoRow
  THEN [reg EXCEPT ![self] = [environment_id |-> e, heartbeat |-> t,
                              responsible |-> reg[self].responsible]]
  ELSE [reg EXCEPT ![self] = [environment_id |-> e, heartbeat |-> t,
                              responsible |-> "n"]]

\* SELECT id, heartbeat WHERE environment_id = ? AND responsible = 'y'
ResponsibleRows(reg, e) ==
  {i \in Ids : reg[i] # NoRow /\ reg[i].environment_id = e
               /\ reg[i].responsible = "y"}

\* UPDATE SET responsible = 'y' WHERE id = ?
MarkResponsible(reg, self) ==
  IF reg[self] # NoRow THEN [reg EXCEPT ![self].responsible = "y"] ELSE reg

\* UPDATE SET responsible = 'n' WHERE environment_id = ?
ClearEnvironment(reg, e) ==
  [i \in Ids |-> IF reg[i] # NoRow /\ reg[i].environment_id = e
                 THEN [reg[i] EXCEPT !.responsible = "n"]
                 ELSE reg[i]]

\* Mutant: an incumbent is stale only when older than the threshold.
Elect_Strict(reg, self, e, t, first) ==
  IF first = self
  THEN [reg |-> reg, justTakenOver |-> TRUE]
  ELSE IF t - reg[first].heartbeat > StaleThreshold
       THEN [reg |-> MarkResponsible(ClearEnvironment(reg, e), self),
             justTakenOver |-> TRUE]
       ELSE [reg |-> reg, justTakenOver |-> FALSE]

\* The decision of the election on rows[0] = first (lines 277-322)
Elect(reg, self, e, t, first) ==
  IF first = self
  THEN [reg |-> reg, justTakenOver |-> TRUE]
  ELSE IF t - reg[first].heartbeat >= StaleThreshold
       THEN [reg |-> MarkResponsible(ClearEnvironment(reg, e), self),
             justTakenOver |-> TRUE]
       ELSE [reg |-> reg, justTakenOver |-> FALSE]

\* The outcomes of the election transaction: one per row the database may
\* return first (the SELECT has no ORDER BY).
ElectionOutcomes(reg, self, e, t) ==
  LET up == Upsert(reg, self, e, t)
      rows == ResponsibleRows(up, e)
  IN IF rows = {}
     THEN {[reg |-> MarkResponsible(up, self), justTakenOver |-> TRUE]}
     ELSE {Elect(up, self, e, t, first) : first \in rows}

\* Mutant: any standby row counts, however old its heartbeat.
FreshStandbys_AnyAge(reg, e, t) ==
  {i \in Ids : reg[i] # NoRow /\ reg[i].environment_id = e
               /\ reg[i].responsible = "n"}

\* SELECT 1 WHERE environment_id = ? AND responsible = 'n' AND ? - heartbeat < 10
FreshStandbys(reg, e, t) ==
  {i \in Ids : reg[i] # NoRow /\ reg[i].environment_id = e
               /\ reg[i].responsible = "n"
               /\ t - reg[i].heartbeat < StaleThreshold}

\* Mutant: the row is released whether or not a standby is there.
Release_Unconditional(reg, self, e, t) ==
  IF reg[self] # NoRow
  THEN [reg EXCEPT ![self].responsible = "n"]
  ELSE reg

\* The cease transaction (lines 361-387)
Release(reg, self, e, t) ==
  IF FreshStandbys(reg, e, t) # {} /\ reg[self] # NoRow
  THEN [reg EXCEPT ![self].responsible = "n"]
  ELSE reg

\* Mutant: the sweeper uses the takeover threshold as its horizon.
Expired_Stale(reg, t) ==
  {i \in Ids : reg[i] # NoRow /\ t - reg[i].heartbeat >= StaleThreshold}

\* DELETE FROM icingadb_instance WHERE ? - heartbeat >= 30
Expired(reg, t) ==
  {i \in Ids : reg[i] # NoRow /\ t - reg[i].heartbeat >= ExpiryHorizon}


\* ------------------------------------------------------- controller: HA.run
\* Lines 131-154: the first environment arrives; the ticker is created and
\* Icinga2HeartBeat is called once.
Start(r, e) ==
  /\ pc[r] = "init"
  /\ ~closed[r]
  /\ now <= Epoch + StartWindow
  /\ pc' = [pc EXCEPT ![r] = "loop"]
  /\ env' = [env EXCEPT ![r] = e]
  /\ icinga2MTime' = Icinga2HeartBeat(r)
  /\ sinceChange' = 0
  /\ UNCHANGED atBoundary
  /\ UNCHANGED <<now, responsibility, responsibleSince, nextAction, tick,
                 icingadb_instance, published>>
  /\ UNCHANGED envVars
  /\ UNCHANGED gateVars

\* <-everySecond.C, at line 407 or line 408, lets the next iteration begin.
AtTick(r) == pc[r] \in {"wait", "skip"} /\ tick[r]

\* One evaluation of the state switch (lines 157-216), at the top of the
\* loop or after the tick that leads there.  A `continue` leaves the loop at
\* its top; otherwise nextAction is chosen.
Continue(r, s) ==
  /\ setResponsibility(r, s)
  /\ pc' = [pc EXCEPT ![r] = "loop"]
  /\ UNCHANGED nextAction

Choose(r, a) ==
  /\ nextAction' = [nextAction EXCEPT ![r] = a]
  /\ pc' = [pc EXCEPT ![r] = "act"]
  /\ UNCHANGED <<responsibility, sinceChange>>

Decide(r) ==
  /\ pc[r] = "loop" \/ AtTick(r)
  /\ tick' = [tick EXCEPT ![r] = IF AtTick(r) THEN FALSE ELSE @]
  /\ published' = [published EXCEPT ![r] = IF AtTick(r) THEN FALSE ELSE @]
  /\ CASE responsibility[r] = readyForTakeover ->
            IF ~icinga2IsAlive(r) THEN Continue(r, notReadyForTakeover)
                                  ELSE Choose(r, tryTakeover)
       [] responsibility[r] = TakeoverNoSync ->
            IF ~icinga2IsAlive(r) THEN Continue(r, stop)
                                  ELSE Choose(r, tryTakeover)
       [] responsibility[r] = TakeoverSync ->
            IF ~icinga2IsAlive(r) THEN Continue(r, stop)
                                  ELSE Choose(r, doTakeover)
       [] responsibility[r] = stop ->
            IF Drained(r) THEN Choose(r, ceaseOperation)
                          ELSE Choose(r, doTakeover)
       [] responsibility[r] = notReadyForTakeover ->
            IF icinga2IsAlive(r) THEN Continue(r, readyForTakeover)
                                 ELSE Choose(r, noAction)
  /\ UNCHANGED atBoundary
  /\ UNCHANGED <<now, env, responsibleSince, icinga2MTime,
                 icingadb_instance>>
  /\ UNCHANGED envVars
  /\ UNCHANGED gateVars

\* Mutant: the claim itself promotes to TakeoverSync.
PostCommit_NoWindow(r, justTakenOver) ==
  IF justTakenOver /\ responsibility[r] # stop
  THEN /\ responsibleSince' =
            [responsibleSince EXCEPT ![r] = IF @ = 0 THEN now ELSE @]
       /\ setResponsibility(r, TakeoverSync)
       /\ published' = [published EXCEPT ![r] = TRUE]
  ELSE UNCHANGED <<responsibility, sinceChange, responsibleSince, published>>

\* Mutant: the wakeup is published on promotion only.
PostCommit_PublishOnce(r, justTakenOver) ==
  IF justTakenOver /\ responsibility[r] # stop
  THEN IF responsibleSince[r] = 0
       THEN /\ responsibleSince' = [responsibleSince EXCEPT ![r] = now]
            /\ setResponsibility(r, TakeoverNoSync)
            /\ UNCHANGED published
       ELSE IF now - responsibleSince[r] >= ConfirmWindow
            THEN /\ setResponsibility(r, TakeoverSync)
                 /\ published' = [published EXCEPT ![r] =
                                    responsibility[r] = TakeoverNoSync]
                 /\ UNCHANGED responsibleSince
            ELSE UNCHANGED <<responsibility, sinceChange, responsibleSince,
                             published>>
  ELSE UNCHANGED <<responsibility, sinceChange, responsibleSince, published>>

\* Mutant: the transition after the commit does not look at stop.
PostCommit_IgnoreStop(r, justTakenOver) ==
  IF justTakenOver
  THEN IF responsibleSince[r] = 0
       THEN /\ responsibleSince' = [responsibleSince EXCEPT ![r] = now]
            /\ setResponsibility(r, TakeoverNoSync)
            /\ UNCHANGED published
       ELSE IF now - responsibleSince[r] >= ConfirmWindow
            THEN /\ setResponsibility(r, TakeoverSync)
                 /\ published' = [published EXCEPT ![r] = TRUE]
                 /\ UNCHANGED responsibleSince
            ELSE UNCHANGED <<responsibility, sinceChange, responsibleSince,
                             published>>
  ELSE UNCHANGED <<responsibility, sinceChange, responsibleSince,
                   published>>

\* Mutant: the promotion waits for more than ConfirmWindow seconds.
PostCommit_StrictWindow(r, justTakenOver) ==
  IF justTakenOver /\ responsibility[r] # stop
  THEN IF responsibleSince[r] = 0
       THEN /\ responsibleSince' = [responsibleSince EXCEPT ![r] = now]
            /\ setResponsibility(r, TakeoverNoSync)
            /\ UNCHANGED published
       ELSE IF now - responsibleSince[r] > ConfirmWindow
            THEN /\ setResponsibility(r, TakeoverSync)
                 /\ published' = [published EXCEPT ![r] = TRUE]
                 /\ UNCHANGED responsibleSince
            ELSE UNCHANGED <<responsibility, sinceChange, responsibleSince,
                             published>>
  ELSE UNCHANGED <<responsibility, sinceChange, responsibleSince,
                   published>>

\* Lines 330-351: what follows the commit of the election.
PostCommit(r, justTakenOver) ==
  IF justTakenOver /\ responsibility[r] # stop
  THEN IF responsibleSince[r] = 0
       THEN /\ responsibleSince' = [responsibleSince EXCEPT ![r] = now]
            /\ setResponsibility(r, TakeoverNoSync)
            /\ UNCHANGED published
       ELSE IF now - responsibleSince[r] >= ConfirmWindow
            THEN /\ setResponsibility(r, TakeoverSync)
                 /\ published' = [published EXCEPT ![r] = TRUE]
                 /\ UNCHANGED responsibleSince
            ELSE UNCHANGED <<responsibility, sinceChange, responsibleSince,
                             published>>
  ELSE UNCHANGED <<responsibility, sinceChange, responsibleSince,
                   published>>

\* case tryTakeover, doTakeover (lines 221-359): the election transaction
\* and the transition after its commit.
Takeover(r) ==
  /\ pc[r] = "act"
  /\ nextAction[r] \in {tryTakeover, doTakeover}
  /\ \E out \in ElectionOutcomes(icingadb_instance, r, env[r], now) :
       /\ icingadb_instance' = out.reg
       /\ PostCommit(r, out.justTakenOver)
  /\ pc' = [pc EXCEPT ![r] = "wait"]
  /\ blocked' = [blocked EXCEPT ![r] = FALSE]
  /\ UNCHANGED <<now, env, icinga2MTime, nextAction, tick, upstream, faults,
                 closed>>
  /\ UNCHANGED gateVars
  /\ atBoundary' = [atBoundary EXCEPT ![r] = responsibility'[r]]

\* Mutant: the cease step forgets to clear responsibleSince.
CeaseOperation_KeepSince(r) ==
  /\ pc[r] = "act"
  /\ nextAction[r] = ceaseOperation
  /\ icingadb_instance' = Release(icingadb_instance, r, env[r], now)
  /\ setResponsibility(r, notReadyForTakeover)
  /\ pc' = [pc EXCEPT ![r] = "wait"]
  /\ blocked' = [blocked EXCEPT ![r] = FALSE]
  /\ UNCHANGED <<now, env, responsibleSince, icinga2MTime, nextAction, tick,
                 published, upstream, faults, closed>>
  /\ UNCHANGED gateVars
  /\ atBoundary' = [atBoundary EXCEPT ![r] = responsibility'[r]]

\* case ceaseOperation (lines 360-398)
CeaseOperation(r) ==
  /\ pc[r] = "act"
  /\ nextAction[r] = ceaseOperation
  /\ icingadb_instance' = Release(icingadb_instance, r, env[r], now)
  /\ responsibleSince' = [responsibleSince EXCEPT ![r] = 0]
  /\ setResponsibility(r, notReadyForTakeover)
  /\ pc' = [pc EXCEPT ![r] = "wait"]
  /\ blocked' = [blocked EXCEPT ![r] = FALSE]
  /\ UNCHANGED <<now, env, icinga2MTime, nextAction, tick, published,
                 upstream, faults, closed>>
  /\ UNCHANGED gateVars
  /\ atBoundary' = [atBoundary EXCEPT ![r] = responsibility'[r]]

\* Mutant: the iteration without action writes the heartbeat all the same.
NoAction_Heartbeat(r) ==
  /\ pc[r] = "act"
  /\ nextAction[r] = noAction
  /\ pc' = [pc EXCEPT ![r] = "wait"]
  /\ icingadb_instance' = Upsert(icingadb_instance, r, env[r], now)
  /\ UNCHANGED <<now, env, responsibility, responsibleSince, icinga2MTime,
                 nextAction, tick, published, sinceChange>>
  /\ UNCHANGED envVars
  /\ UNCHANGED gateVars
  /\ atBoundary' = [atBoundary EXCEPT ![r] = responsibility'[r]]

\* case noAction (lines 219-220)
NoAction(r) ==
  /\ pc[r] = "act"
  /\ nextAction[r] = noAction
  /\ pc' = [pc EXCEPT ![r] = "wait"]
  /\ UNCHANGED <<now, env, responsibility, responsibleSince, icinga2MTime,
                 nextAction, tick, icingadb_instance, published,
                 sinceChange>>
  /\ UNCHANGED envVars
  /\ UNCHANGED gateVars
  /\ atBoundary' = [atBoundary EXCEPT ![r] = responsibility'[r]]

\* select, case env = <-chEnv (lines 402-407): the environment is replaced
\* and the loop waits for the next tick.
EnvUpdate(r, e) ==
  /\ pc[r] = "wait"
  /\ ~closed[r]
  /\ Disturbances < MaxFaults
  /\ faults' = [faults EXCEPT !.env = @ + 1]
  /\ env' = [env EXCEPT ![r] = e]
  /\ pc' = [pc EXCEPT ![r] = "skip"]
  /\ sinceChange' = 0
  /\ UNCHANGED atBoundary
  /\ UNCHANGED <<now, responsibility, responsibleSince, icinga2MTime,
                 nextAction, tick, icingadb_instance, published,
                 upstream, blocked, closed>>
  /\ UNCHANGED gateVars

\* ------------------------------------------------- HA.run: the ways out
\* Lines 131-134: chEnv is closed before an environment came.
ClosedAtStart(r) ==
  /\ pc[r] = "init"
  /\ closed[r]
  /\ pc' = [pc EXCEPT ![r] = "ok"]
  /\ UNCHANGED atBoundary
  /\ UNCHANGED <<now, env, responsibility, responsibleSince, icinga2MTime,
                 nextAction, tick, icingadb_instance, published, sinceChange>>
  /\ UNCHANGED envVars
  /\ UNCHANGED gateVars

\* Mutant: the closed channel is reported as an error.
ObserveClosed_Error(r) ==
  /\ pc[r] = "wait"
  /\ closed[r]
  /\ pc' = [pc EXCEPT ![r] = "err"]
  /\ UNCHANGED atBoundary
  /\ UNCHANGED <<now, env, responsibility, responsibleSince, icinga2MTime,
                 nextAction, tick, icingadb_instance, published, sinceChange>>
  /\ UNCHANGED envVars
  /\ UNCHANGED gateVars

\* select, case env, hasEnv = <-chEnv with hasEnv false (lines 402-405)
ObserveClosed(r) ==
  /\ pc[r] = "wait"
  /\ closed[r]
  /\ pc' = [pc EXCEPT ![r] = "ok"]
  /\ UNCHANGED atBoundary
  /\ UNCHANGED <<now, env, responsibility, responsibleSince, icinga2MTime,
                 nextAction, tick, icingadb_instance, published, sinceChange>>
  /\ UNCHANGED envVars
  /\ UNCHANGED gateVars

\* Mutant: the failed transaction keeps the upsert of the own row.
TakeoverFails_Upserted(r) ==
  /\ pc[r] = "act"
  /\ nextAction[r] \in {tryTakeover, doTakeover}
  /\ icingadb_instance' = Upsert(icingadb_instance, r, env[r], now)
  /\ pc' = [pc EXCEPT ![r] = "err"]
  /\ UNCHANGED atBoundary
  /\ UNCHANGED <<now, env, responsibility, responsibleSince, icinga2MTime,
                 nextAction, tick, published, sinceChange>>
  /\ UNCHANGED envVars
  /\ UNCHANGED gateVars

\* Lines 224-328: the election transaction fails and is rolled back.
TakeoverFails(r) ==
  /\ pc[r] = "act"
  /\ nextAction[r] \in {tryTakeover, doTakeover}
  /\ pc' = [pc EXCEPT ![r] = "err"]
  /\ UNCHANGED atBoundary
  /\ UNCHANGED <<now, env, responsibility, responsibleSince, icinga2MTime,
                 nextAction, tick, icingadb_instance, published, sinceChange>>
  /\ UNCHANGED envVars
  /\ UNCHANGED gateVars

\* Lines 224-348: the election commits, the state is set and rdb.Publish
\* fails.
PublishFails(r) ==
  /\ pc[r] = "act"
  /\ nextAction[r] \in {tryTakeover, doTakeover}
  /\ responsibility[r] # stop
  /\ responsibleSince[r] # 0
  /\ now - responsibleSince[r] >= ConfirmWindow
  /\ \E out \in ElectionOutcomes(icingadb_instance, r, env[r], now) :
       /\ out.justTakenOver
       /\ icingadb_instance' = out.reg
  /\ setResponsibility(r, TakeoverSync)
  /\ pc' = [pc EXCEPT ![r] = "err"]
  /\ UNCHANGED atBoundary
  /\ UNCHANGED <<now, env, responsibleSince, icinga2MTime, nextAction, tick,
                 published>>
  /\ UNCHANGED envVars
  /\ UNCHANGED gateVars

\* Lines 361-390: the cease transaction fails and is rolled back.
CeaseFails(r) ==
  /\ pc[r] = "act"
  /\ nextAction[r] = ceaseOperation
  /\ pc' = [pc EXCEPT ![r] = "err"]
  /\ UNCHANGED atBoundary
  /\ UNCHANGED <<now, env, responsibility, responsibleSince, icinga2MTime,
                 nextAction, tick, icingadb_instance, published, sinceChange>>
  /\ UNCHANGED envVars
  /\ UNCHANGED gateVars

\* ------------------------------------------------------------ environment
\* The sender closes chEnv of r.
CloseEnv(r) ==
  /\ ~closed[r]
  /\ ~Returned(r)
  /\ closed' = [closed EXCEPT ![r] = TRUE]
  /\ UNCHANGED <<now, icinga2MTime, tick, icingadb_instance, upstream,
                 blocked, faults>>
  /\ UNCHANGED ctlVars
  /\ UNCHANGED gateVars

\* The upstream of r stops: no Icinga2HeartBeat until it resumes.
UpstreamStops(r) ==
  /\ upstream[r]
  /\ pc[r] # "init"
  /\ Disturbances < MaxFaults
  /\ faults' = [faults EXCEPT !.outage = @ + 1]
  /\ upstream' = [upstream EXCEPT ![r] = FALSE]
  /\ UNCHANGED <<now, icinga2MTime, tick, icingadb_instance, blocked, closed>>
  /\ UNCHANGED ctlVars
  /\ UNCHANGED gateVars

\* The upstream of r runs again and calls Icinga2HeartBeat.
UpstreamResumes(r) ==
  /\ ~upstream[r]
  /\ upstream' = [upstream EXCEPT ![r] = TRUE]
  /\ icinga2MTime' = Icinga2HeartBeat(r)
  /\ UNCHANGED <<now, tick, icingadb_instance, blocked, faults, closed>>
  /\ UNCHANGED ctlVars
  /\ UNCHANGED gateVars

\* The transaction of this iteration is held up in I/O: time may pass
\* before it runs.
Block(r) ==
  /\ pc[r] = "act"
  /\ nextAction[r] # noAction
  /\ ~blocked[r]
  /\ Disturbances < MaxFaults
  /\ faults' = [faults EXCEPT !.stall = @ + 1]
  /\ blocked' = [blocked EXCEPT ![r] = TRUE]
  /\ UNCHANGED <<now, icinga2MTime, tick, icingadb_instance, upstream, closed>>
  /\ UNCHANGED ctlVars
  /\ UNCHANGED gateVars

\* ---------------------------------------------------------------- sweeper
\* cleanUpInstances (lines 108-123), run by the sweeper of any node.
cleanUpInstances ==
  /\ icingadb_instance' =
       [i \in Ids |-> IF i \in Expired(icingadb_instance, now)
                      THEN NoRow ELSE icingadb_instance[i]]
  /\ UNCHANGED <<now, icinga2MTime, tick>>
  /\ UNCHANGED envVars
  /\ UNCHANGED ctlVars
  /\ UNCHANGED gateVars

\* ------------------------------------------- gate: HA.RunCriticalOperation
\* A call may begin when the caller is in no call.
Callable(c) == cpc[c] \in {"idle", "returned"}

\* Line 61-62: the caller reads TakeoverSync or stop.
Admit(c) ==
  /\ Callable(c)
  /\ responsibility[GateOf(c)] \in {TakeoverSync, stop}
  /\ cpc' = [cpc EXCEPT ![c] = "admitted"]
  /\ opErr' = [opErr EXCEPT ![c] = NoResult]
  /\ ret' = [ret EXCEPT ![c] = NoResult]
  /\ UNCHANGED <<now, icinga2MTime, tick, icingadb_instance,
                 runningCriticalOperations, lastCriticalOperationEnd, opEnd,
                 countedUnderSync>>
  /\ UNCHANGED envVars
  /\ UNCHANGED ctlVars

\* Line 61, 73: the caller reads another state and returns nil.
Refuse(c) ==
  /\ Callable(c)
  /\ responsibility[GateOf(c)] \notin {TakeoverSync, stop}
  /\ cpc' = [cpc EXCEPT ![c] = "returned"]
  /\ opErr' = [opErr EXCEPT ![c] = NoResult]
  /\ ret' = [ret EXCEPT ![c] = "nil"]
  /\ UNCHANGED <<now, icinga2MTime, tick, icingadb_instance,
                 runningCriticalOperations, lastCriticalOperationEnd, opEnd,
                 countedUnderSync>>
  /\ UNCHANGED envVars
  /\ UNCHANGED ctlVars

\* Line 63: the counter is incremented; op starts.
BeginOp(c) ==
  /\ cpc[c] = "admitted"
  /\ cpc' = [cpc EXCEPT ![c] = "running"]
  /\ runningCriticalOperations' =
       [runningCriticalOperations EXCEPT ![GateOf(c)] = @ + 1]
  /\ countedUnderSync' =
       [countedUnderSync EXCEPT ![c] = (responsibility[GateOf(c)] = TakeoverSync)]
  /\ UNCHANGED <<now, icinga2MTime, tick, icingadb_instance,
                 lastCriticalOperationEnd, opEnd, opErr, ret>>
  /\ UNCHANGED envVars
  /\ UNCHANGED ctlVars

\* Lines 65-67: op returns e and its end is recorded.
EndOp(c, e) ==
  /\ cpc[c] = "running"
  /\ cpc' = [cpc EXCEPT ![c] = "ended"]
  /\ opErr' = [opErr EXCEPT ![c] = e]
  /\ lastCriticalOperationEnd' =
       [lastCriticalOperationEnd EXCEPT ![GateOf(c)] = now]
  /\ opEnd' = [opEnd EXCEPT ![c] = now]
  /\ UNCHANGED <<now, icinga2MTime, tick, icingadb_instance,
                 runningCriticalOperations, countedUnderSync, ret>>
  /\ UNCHANGED envVars
  /\ UNCHANGED ctlVars

\* Mutant: the error of op is swallowed.
Return_Nil(c) == "nil"

\* Line 70: return err
Return(c) == opErr[c]

\* Lines 68-70: the counter is decremented (adding ^uint64(0) to a counter
\* >= 1) and err is returned.
Decrement(c) ==
  /\ cpc[c] = "ended"
  /\ cpc' = [cpc EXCEPT ![c] = "returned"]
  /\ runningCriticalOperations' =
       [runningCriticalOperations EXCEPT ![GateOf(c)] = @ - 1]
  /\ ret' = [ret EXCEPT ![c] = Return(c)]
  /\ UNCHANGED <<now, icinga2MTime, tick, icingadb_instance,
                 lastCriticalOperationEnd, opEnd, countedUnderSync, opErr>>
  /\ UNCHANGED envVars
  /\ UNCHANGED ctlVars

\* ------------------------------------------------------------------ clock
\* A replica is done with the current second: its loop waits for a tick
\* that has not come yet and for an open chEnv, or it is held up in its
\* transaction, or it has returned.
Idle(r) ==
  \/ pc[r] = "init" /\ ~closed[r]
  \/ pc[r] = "wait" /\ ~tick[r] /\ ~closed[r]
  \/ pc[r] = "skip" /\ ~tick[r]
  \/ blocked[r]
  \/ Returned(r)

\* One second passes: every ticker puts a tick into its channel (buffer of
\* one) and every running upstream calls Icinga2HeartBeat.  The clock of the
\* model starts with the first controller.
Advance ==
  /\ now < Epoch + MaxTime
  /\ \E r \in Replicas : pc[r] # "init"
  /\ \A r \in Replicas : Idle(r)
  /\ now' = now + 1
  /\ tick' = [r \in Replicas |-> pc[r] # "init" /\ ~Returned(r)]
  /\ icinga2MTime' = [r \in Replicas |->
                        IF upstream[r] /\ pc[r] # "init" THEN now + 1
                                                         ELSE icinga2MTime[r]]
  /\ sinceChange' = IF sinceChange < ConvergeTime THEN sinceChange + 1
                                                  ELSE sinceChange
  /\ UNCHANGED atBoundary
  /\ UNCHANGED <<pc, env, responsibility, responsibleSince, nextAction,
                 published>>
  /\ UNCHANGED icingadb_instance
  /\ UNCHANGED envVars
  /\ UNCHANGED gateVars

\* The controllers, their environment and the sweeper.
Next ==
  \/ \E r \in Replicas, e \in Envs : Start(r, e)
  \/ \E r \in Replicas : Decide(r)
  \/ \E r \in Replicas : Takeover(r)
  \/ \E r \in Replicas : CeaseOperation(r)
  \/ \E r \in Replicas : NoAction(r)
  \/ \E r \in Replicas, e \in Envs : EnvUpdate(r, e)
  \/ \E r \in Replicas : UpstreamStops(r)
  \/ \E r \in Replicas : UpstreamResumes(r)
  \/ \E r \in Replicas : Block(r)
  \/ cleanUpInstances
  \/ Advance

Spec == Init /\ [][Next]_vars

\* The controllers and the callers of the gate; the only disturbance is an
\* upstream that stops.
NextGate ==
  \/ \E r \in Replicas, e \in Envs : Start(r, e)
  \/ \E r \in Replicas : Decide(r)
  \/ \E r \in Replicas : Takeover(r)
  \/ \E r \in Replicas : CeaseOperation(r)
  \/ \E r \in Replicas : NoAction(r)
  \/ \E r \in Replicas : UpstreamStops(r)
  \/ \E r \in Replicas : UpstreamResumes(r)
  \/ \E c \in Callers : Admit(c)
  \/ \E c \in Callers : BeginOp(c)
  \/ \E c \in Callers : EndOp(c, "nil")
  \/ \E c \in Callers : Decrement(c)
  \/ Advance

SpecGate == Init /\ [][NextGate]_vars

\* The controllers with transactions and publishes that may fail.
NextExit ==
  \/ \E r \in Replicas, e \in Envs : Start(r, e)
  \/ \E r \in Replicas : Decide(r)
  \/ \E r \in Replicas : Takeover(r)
  \/ \E r \in Replicas : CeaseOperation(r)
  \/ \E r \in Replicas : NoAction(r)
  \/ \E r \in Replicas : UpstreamStops(r)
  \/ \E r \in Replicas : UpstreamResumes(r)
  \/ \E r \in Replicas : TakeoverFails(r)
  \/ \E r \in Replicas : PublishFails(r)
  \/ \E r \in Replicas : CeaseFails(r)
  \/ Advance

SpecExit == Init /\ [][NextExit]_vars

\* The controllers with an environment channel that may be closed; every
\* transaction succeeds.  A loop that can take a step takes it, and time
\* passes.
NextLive ==
  \/ \E r \in Replicas, e \in Envs : Start(r, e)
  \/ \E r \in Replicas : Decide(r)
  \/ \E r \in Replicas : Takeover(r)
  \/ \E r \in Replicas : CloseEnv(r)
  \/ \E r \in Replicas : ClosedAtStart(r)
  \/ \E r \in Replicas : ObserveClosed(r)
  \/ Advance

Fairness ==
  /\ \A r \in Replicas : WF_vars(Decide(r))
  /\ \A r \in Replicas : WF_vars(Takeover(r))
  /\ \A r \in Replicas : WF_vars(ClosedAtStart(r))
  /\ \A r \in Replicas : WF_vars(ObserveClosed(r))
  /\ WF_vars(Advance)

SpecLive == Init /\ [][NextLive]_vars /\ Fairness

\* The controllers and the callers of the gate, whose op may fail.
NextCall ==
  \/ \E r \in Replicas, e \in Envs : Start(r, e)
  \/ \E r \in Replicas : Decide(r)
  \/ \E r \in Replicas : Takeover(r)
  \/ \E r \in Replicas : CeaseOperation(r)
  \/ \E r \in Replicas : NoAction(r)
  \/ \E r \in Replicas : UpstreamStops(r)
  \/ \E r \in Replicas : UpstreamResumes(r)
  \/ \E c \in Callers : Admit(c)
  \/ \E c \in Callers : Refuse(c)
  \/ \E c \in Callers : BeginOp(c)
  \/ \E c \in Callers, e \in OpResults : EndOp(c, e)
  \/ \E c \in Callers : Decrement(c)
  \/ Advance

SpecCall == Init /\ [][NextCall]_vars

\* ================================================================ claims
Row(i) == icingadb_instance[i]
HasRow(i) == Row(i) # NoRow
Started(r) == pc[r] # "init"
\* No replica was ever held up and no upstream ever stopped: every started
\* loop has iterated once per second with its upstream alive.
AllHealthy == faults.outage = 0 /\ faults.stall = 0
\* The rows of environment e marked responsible whose heartbeat is at most
\* StaleThreshold seconds old.
FreshResponsible(e) ==
  {i \in Ids : HasRow(i) /\ Row(i).environment_id = e
               /\ Row(i).responsible = "y"
               /\ now - Row(i).heartbeat <= StaleThreshold}
\* The step of r that runs the election / the cease transaction.
ElectionStep(r) ==
  pc[r] = "act" /\ nextAction[r] \in {tryTakeover, doTakeover} /\ pc'[r] = "wait"
CeaseStep(r) ==
  pc[r] = "act" /\ nextAction[r] = ceaseOperation /\ pc'[r] = "wait"

\* C1: two healthy replicas of the same environment: once ConvergeTime (11)
\* seconds have passed since the last change of a responsibility or of an
\* environment, the two are not both in TakeoverSync.  (C1 also asks for
\* one of them to be in TakeoverSync; this is the half of it that does not
\* depend on the order in which the database returns rows.)
C1_NeverBothSync ==
  \A a, b \in Replicas :
    (a # b /\ Started(a) /\ Started(b) /\ env[a] = env[b] /\ AllHealthy
      /\ sinceChange >= ConvergeTime)
    => ~(IsResponsible(a) /\ IsResponsible(b))

\* C2: the registry invariant in its weakest reading: with healthy
\* replicas, two fresh responsible rows of one environment do not outlast
\* ConvergeTime seconds of election ticks.
C2_RegistryConverges ==
  \A e \in Envs :
    (AllHealthy /\ sinceChange >= ConvergeTime)
    => Cardinality(FreshResponsible(e)) <= 1

\* C3: while critical operations are counted as in flight, the
\* responsibility is TakeoverSync or Stop.
C3_GateImpliesResponsible ==
  \A r \in Replicas :
    runningCriticalOperations[r] > 0
    => responsibility[r] \in {TakeoverSync, stop}

\* C4: a critical operation counted while the replica was in TakeoverSync
\* has completed, and SettleDelay (5) seconds have passed since its recorded
\* end, when the replica goes from Stop to NotReadyForTakeover; CeaseOperation
\* is chosen only with the gate drained, and until then every iteration in
\* Stop chooses DoTakeover.
DecideStep(r) ==
  \/ AtTick(r) /\ pc'[r] \in {"act", "loop"}
  \/ pc[r] = "loop" /\ (pc'[r] = "act" \/ responsibility'[r] # responsibility[r])

OtherFreshStandby(r) ==
  \E i \in Ids \ {r} :
    /\ HasRow(i)
    /\ Row(i).environment_id = env[r]
    /\ Row(i).responsible = "n"
    /\ now - Row(i).heartbeat < StaleThreshold

C5_NoOrphanHandoff ==
  [][\A r \in Replicas :
       CeaseStep(r)
       => /\ (Row(r).responsible = "y"
              /\ icingadb_instance'[r].responsible = "n")
             => OtherFreshStandby(r)
          /\ ~OtherFreshStandby(r) => icingadb_instance' = icingadb_instance
     ]_vars

\* A replica that has just released its row to a fresh standby.
C5_Witness ==
  \E r \in Replicas :
    /\ responsibility[r] = notReadyForTakeover
    /\ pc[r] = "wait" /\ nextAction[r] = ceaseOperation
    /\ sinceChange = 0
    /\ HasRow(r) /\ Row(r).responsible = "n"
    /\ OtherFreshStandby(r)

\* C6: TakeoverSync is entered from TakeoverNoSync only, by an election, and
\* not sooner than ConfirmWindow (5) seconds after the claim that set
\* responsibleSince; responsibleSince is set to the time of a claim that
\* leaves the own row responsible and leads to TakeoverNoSync.
C6_ConfirmationWindow ==
  /\ [](\A r \in Replicas :
          responsibility[r] = TakeoverSync
          => /\ responsibleSince[r] # 0
             /\ now - responsibleSince[r] >= ConfirmWindow)
  /\ [][\A r \in Replicas :
          /\ (responsibility'[r] = TakeoverSync /\ responsibility[r] # TakeoverSync)
             => /\ responsibility[r] = TakeoverNoSync
                /\ ElectionStep(r)
                /\ responsibleSince'[r] = responsibleSince[r]
                /\ now - responsibleSince[r] >= ConfirmWindow
          /\ (responsibleSince'[r] # responsibleSince[r] /\ responsibleSince'[r] # 0)
             => /\ responsibleSince'[r] = now
                /\ ElectionStep(r)
                /\ responsibility'[r] = TakeoverNoSync
                /\ icingadb_instance'[r].responsible = "y"
       ]_vars

\* The cold start: TakeoverSync exactly ConfirmWindow after the claim.
C6_Witness ==
  \E r \in Replicas :
    /\ responsibility[r] = TakeoverSync
    /\ now - responsibleSince[r] = ConfirmWindow

\* C7: at the end of an iteration, TakeoverSync and Stop imply that the own
\* row exists and is marked responsible.
C7_StateImpliesRow ==
  \A r \in Replicas :
    (pc[r] \in {"wait", "skip"} /\ responsibility[r] \in {TakeoverSync, stop})
    => (HasRow(r) /\ Row(r).responsible = "y")

\* C8 as stated: a wakeup is published only in the iteration that changes
\* TakeoverNoSync into TakeoverSync.
C8_WakeupOnlyOnPromotion ==
  [][\A r \in Replicas :
       (published'[r] /\ ~published[r])
       => (responsibility[r] = TakeoverNoSync /\ responsibility'[r] = TakeoverSync)
    ]_vars

\* C8 as amended: a wakeup is published only by an election that has
\* committed with the own row responsible and ends in TakeoverSync, from
\* TakeoverNoSync or TakeoverSync, ConfirmWindow after responsibleSince;
\* it is published by every promotion and again by every election in
\* TakeoverSync that finds the own row the only responsible one.
C8_WakeupOnEveryRenewal ==
  [][\A r \in Replicas :
       /\ (published'[r] /\ ~published[r])
          => /\ ElectionStep(r)
             /\ responsibility[r] \in {TakeoverNoSync, TakeoverSync}
             /\ responsibility'[r] = TakeoverSync
             /\ now - responsibleSince[r] >= ConfirmWindow
             /\ icingadb_instance'[r].responsible = "y"
       /\ (responsibility[r] = TakeoverNoSync /\ responsibility'[r] = TakeoverSync)
          => published'[r]
       /\ (ElectionStep(r) /\ responsibility[r] = TakeoverSync
           /\ ResponsibleRows(icingadb_instance', env[r]) = {r})
          => published'[r]
       /\ (ElectionStep(r) /\ responsibility'[r] # TakeoverSync)
          => ~published'[r]
    ]_vars

\* An iteration that began in TakeoverSync has published a wakeup.
C8_Witness ==
  \E r \in Replicas :
    /\ pc[r] = "wait" /\ ~tick[r]
    /\ responsibility[r] = TakeoverSync
    /\ published[r]
    /\ sinceChange >= 1

\* C9: a row disappears only by a sweeper run that finds its heartbeat
\* ExpiryHorizon (30) seconds old or older; that run deletes every such row
\* and changes no other; the row of a replica whose last action was an
\* election is there.
C9_SweeperSafety ==
  /\ [][\A i \in Ids :
          (HasRow(i) /\ icingadb_instance'[i] = NoRow)
          => /\ now - Row(i).heartbeat >= ExpiryHorizon
             /\ \A j \in Ids :
                  icingadb_instance'[j] =
                    IF HasRow(j) /\ now - Row(j).heartbeat > ExpiryHorizon - 1
                    THEN NoRow ELSE Row(j)
       ]_vars
  /\ [](\A r \in Replicas :
          (pc[r] \in {"wait", "skip"} /\ nextAction[r] \in {tryTakeover, doTakeover})
          => HasRow(r))

\* The sweeper has removed the dead replica's row at the first moment it
\* may, and the rows of the running replicas are still there.
C9_Witness ==
  /\ ~HasRow(Dead)
  /\ now = Epoch - ZAge + ExpiryHorizon
  /\ \E r \in Replicas : HasRow(r)

\* C10: the upstream counts as alive up to AliveThreshold - 1 (14) seconds
\* after its last heartbeat and no longer from AliveThreshold (15) on: it is
\* then that the loop leaves ReadyForTakeover, TakeoverNoSync and
\* TakeoverSync, and up to then that it leaves NotReadyForTakeover; a
\* heartbeat records the current time and makes the upstream alive.
C10_LivenessPredicate ==
  /\ [](\A r \in Replicas :
          /\ now - icinga2MTime[r] <= AliveThreshold - 1 => icinga2IsAlive(r)
          /\ now - icinga2MTime[r] >= AliveThreshold => ~icinga2IsAlive(r))
  /\ [][\A r \in Replicas :
          /\ (DecideStep(r) /\ responsibility[r] # stop)
             => ((responsibility'[r] # responsibility[r])
                 <=> IF responsibility[r] = notReadyForTakeover
                     THEN now - icinga2MTime[r] <= AliveThreshold - 1
                     ELSE now - icinga2MTime[r] >= AliveThreshold)
          /\ icinga2MTime'[r] # icinga2MTime[r]
             => (icinga2MTime'[r] = now' /\ icinga2IsAlive(r)')
       ]_vars

\* A loop that stopped at the very second the threshold was reached.
C10_Witness ==
  \E r \in Replicas :
    /\ now - icinga2MTime[r] = AliveThreshold
    /\ responsibility[r] = stop

\* The caller c takes a step of RunCriticalOperation.
CallerStep(c) ==
  <<cpc[c], opErr[c], ret[c]>> # <<cpc'[c], opErr'[c], ret'[c]>>

\* The callers of r that are between line 63 and line 68.
InFlight(r) == {c \in Callers : GateOf(c) = r /\ cpc[c] \in {"running", "ended"}}

\* C11: a call of RunCriticalOperation that reads TakeoverSync or Stop runs
\* op once: the counter goes up by one before op, the end time is recorded
\* when op returns, the counter goes down by one after that and the value
\* returned is the one op returned; a call that reads another state
\* returns nil and changes neither the counter nor the end time.  No step of
\* a call changes responsibility or responsibleSince, and the counter is
\* always the number of callers between increment and decrement.
C11_GateFrame ==
  /\ [](\A r \in Replicas :
          runningCriticalOperations[r] = Cardinality(InFlight(r)))
  /\ [][\A c \in Callers :
          CallerStep(c) =>
            /\ responsibility' = responsibility
            /\ responsibleSince' = responsibleSince
            /\ icingadb_instance' = icingadb_instance
            /\ CASE Callable(c) /\ responsibility[GateOf(c)] \in {TakeoverSync, stop} ->
                     /\ cpc'[c] = "admitted"
                     /\ runningCriticalOperations' = runningCriticalOperations
                     /\ lastCriticalOperationEnd' = lastCriticalOperationEnd
                 [] Callable(c) /\ responsibility[GateOf(c)] \notin {TakeoverSync, stop} ->
                     /\ cpc'[c] = "returned"
                     /\ ret'[c] = "nil"
                     /\ runningCriticalOperations' = runningCriticalOperations
                     /\ lastCriticalOperationEnd' = lastCriticalOperationEnd
                 [] cpc[c] = "admitted" ->
                     /\ cpc'[c] = "running"
                     /\ runningCriticalOperations'[GateOf(c)] =
                          runningCriticalOperations[GateOf(c)] + 1
                     /\ lastCriticalOperationEnd' = lastCriticalOperationEnd
                 [] cpc[c] = "running" ->
                     /\ cpc'[c] = "ended"
                     /\ opErr'[c] \in OpResults
                     /\ runningCriticalOperations' = runningCriticalOperations
                     /\ lastCriticalOperationEnd'[GateOf(c)] = now
                 [] cpc[c] = "ended" ->
                     /\ cpc'[c] = "returned"
                     /\ ret'[c] = opErr[c]
                     /\ runningCriticalOperations[GateOf(c)] >= 1
                     /\ runningCriticalOperations'[GateOf(c)] =
                          runningCriticalOperations[GateOf(c)] - 1
                     /\ lastCriticalOperationEnd' = lastCriticalOperationEnd
       ]_vars

\* A call whose op failed has returned that error, with the counter back at
\* zero and the replica still in TakeoverSync.
C11_Witness ==
  \E c \in Callers :
    /\ cpc[c] = "returned"
    /\ opErr[c] = "errOp"
    /\ ret[c] = "errOp"
    /\ runningCriticalOperations[GateOf(c)] = 0
    /\ responsibility[GateOf(c)] = TakeoverSync

\* The own row is marked responsible if the state is TakeoverSync or stop.
RowMatchesState(r) ==
  responsibility[r] \in {TakeoverSync, stop}
  => (HasRow(r) /\ Row(r).responsible = "y")

\* responsibleSince is set exactly in TakeoverNoSync, TakeoverSync and stop.
SinceMatchesState(r) ==
  (responsibleSince[r] # 0)
  <=> responsibility[r] \in {TakeoverNoSync, TakeoverSync, stop}

\* HA.run of r returns an error in this step.
ErrorExit(r) == pc[r] # "err" /\ pc'[r] = "err"

\* C12 as amended: the loop returns an error only out of its registry action.  Either
\* the transaction failed: then the registry, the responsibility and
\* responsibleSince are what they were; or the election committed and the
\* publish failed: then the own row is responsible with the heartbeat of
\* this tick and the state is TakeoverSync, ConfirmWindow after
\* responsibleSince.  TakeoverNoSync, TakeoverSync and responsibleSince are
\* assigned only in a step whose election has committed.  An error exit
\* keeps the own row in line with the state and responsibleSince in line
\* with the state.
C12_ErrorExit ==
  [][\A r \in Replicas :
       /\ ErrorExit(r) =>
            /\ pc[r] = "act"
            /\ nextAction[r] # noAction
            /\ \/ /\ icingadb_instance' = icingadb_instance
                  /\ responsibility'[r] = responsibility[r]
                  /\ responsibleSince'[r] = responsibleSince[r]
               \/ /\ nextAction[r] \in {tryTakeover, doTakeover}
                  /\ icingadb_instance'[r] =
                       [environment_id |-> env[r], heartbeat |-> now,
                        responsible |-> "y"]
                  /\ responsibility[r] \in {TakeoverNoSync, TakeoverSync}
                  /\ responsibility'[r] = TakeoverSync
                  /\ responsibleSince'[r] = responsibleSince[r]
                  /\ now - responsibleSince[r] >= ConfirmWindow
                  /\ ~published'[r]
            /\ RowMatchesState(r) => RowMatchesState(r)'
            /\ SinceMatchesState(r) => SinceMatchesState(r)'
       /\ (\/ (responsibility'[r] # responsibility[r]
               /\ responsibility'[r] \in {TakeoverNoSync, TakeoverSync})
           \/ (responsibleSince'[r] # responsibleSince[r]
               /\ responsibleSince'[r] # 0))
          => icingadb_instance'[r] =
               [environment_id |-> env[r], heartbeat |-> now,
                responsible |-> "y"]
    ]_vars

\* C12 as stated: when the transaction of a tick fails (the loop returns an
\* error and the own row has not got the heartbeat of this tick), the
\* registry is unchanged and the responsibility and responsibleSince are
\* what they were before the tick.
C12_StateAsBeforeTick ==
  [][\A r \in Replicas :
       (ErrorExit(r) /\ icingadb_instance'[r] = icingadb_instance[r])
       => /\ icingadb_instance' = icingadb_instance
          /\ responsibleSince'[r] = responsibleSince[r]
          /\ responsibility'[r] = atBoundary[r]
    ]_vars

\* The loop has returned the error of a publish that failed at the
\* promotion: TakeoverSync, the own row committed, no wakeup.
C12_Witness ==
  \E r \in Replicas :
    /\ pc[r] = "err"
    /\ responsibility[r] = TakeoverSync
    /\ now - responsibleSince[r] = ConfirmWindow
    /\ ~published[r]
    /\ Row(r) = [environment_id |-> env[r], heartbeat |-> now,
                 responsible |-> "y"]

\* C13: a loop whose chEnv is closed returns nil: before the first
\* environment it returns without a row of its own in the registry; a
\* running loop returns at its select, at the latest after the iteration it
\* was in.  No loop returns an error, and after the return the loop writes
\* no heartbeat and changes no state.
C13_CleanShutdown ==
  /\ [](\A r \in Replicas : pc[r] # "err")
  /\ [][\A r \in Replicas :
          /\ (pc[r] = "init" /\ closed[r]) => pc'[r] \in {"init", "ok"}
          /\ (pc[r] = "init" /\ pc'[r] = "ok")
             => (~HasRow(r) /\ icingadb_instance' = icingadb_instance)
          /\ (pc[r] # "ok" /\ pc'[r] = "ok")
             => (closed[r] /\ pc[r] \in {"init", "wait"}
                 /\ icingadb_instance' = icingadb_instance)
          /\ pc[r] = "ok"
             => /\ pc'[r] = "ok"
                /\ icingadb_instance'[r].heartbeat = icingadb_instance[r].heartbeat
                /\ responsibility'[r] = responsibility[r]
                /\ responsibleSince'[r] = responsibleSince[r]
       ]_vars
  /\ \A r \in Replicas : closed[r] ~> (pc[r] = "ok")

\* A loop that was syncing has returned nil after its chEnv was closed.
C13_Witness ==
  \E r \in Replicas :
    /\ pc[r] = "ok"
    /\ closed[r]
    /\ responsibility[r] = TakeoverSync
    /\ HasRow(r)

\* A row of another replica holds the environment of r: it is marked
\* responsible and its heartbeat is less than StaleThreshold old.
FreshPeerHolds(r) ==
  \E i \in Ids \ {r} :
    /\ HasRow(i)
    /\ Row(i).environment_id = env[r]
    /\ Row(i).responsible = "y"
    /\ now - Row(i).heartbeat < StaleThreshold

\* The environment of r was replaced since its row was written last.
Switched(r) == HasRow(r) /\ Row(r).environment_id # env[r]

\* C14: an environment update replaces env and runs no transaction; the
\* loop goes on only with the next tick; the election that follows writes
\* the own row with the new environment_id, and if a fresh peer holds the
\* new environment the own row does not come out responsible and the
\* replica is not in TakeoverSync after it.
C14_SwitchFromScratch ==
  [][\A r \in Replicas :
       /\ env'[r] # env[r] /\ pc[r] # "init"
          => (pc[r] = "wait" /\ pc'[r] = "skip"
              /\ icingadb_instance' = icingadb_instance)
       /\ (pc[r] = "skip" /\ pc'[r] # "skip") => (tick[r] /\ ~tick'[r])
       /\ ElectionStep(r) => icingadb_instance'[r].environment_id = env[r]
       /\ (ElectionStep(r) /\ Switched(r) /\ FreshPeerHolds(r))
          => /\ icingadb_instance'[r].responsible = "n"
             /\ responsibility'[r] # TakeoverSync
    ]_vars

\* C15: a cease transaction that finds no fresh standby leaves the registry
\* as it is, and the replica becomes NotReadyForTakeover with
\* responsibleSince cleared.  With the upstream alive again the state switch
\* sets ReadyForTakeover and comes round at once to choose tryTakeover; the
\* election of a replica in ReadyForTakeover whose own row is the only
\* responsible row of its environment leaves the row responsible, sets
\* responsibleSince to the time of this tick and enters TakeoverNoSync.
C15_RefusedDemotion ==
  [][\A r \in Replicas :
       /\ (CeaseStep(r) /\ ~OtherFreshStandby(r))
          => /\ icingadb_instance' = icingadb_instance
             /\ responsibility'[r] = notReadyForTakeover
             /\ responsibleSince'[r] = 0
       /\ (DecideStep(r) /\ responsibility[r] = notReadyForTakeover
           /\ icinga2IsAlive(r))
          => (responsibility'[r] = readyForTakeover /\ pc'[r] = "loop")
       /\ (DecideStep(r) /\ pc[r] = "loop"
           /\ responsibility[r] = readyForTakeover /\ icinga2IsAlive(r))
          => (pc'[r] = "act" /\ nextAction'[r] = tryTakeover /\ now' = now)
       /\ (ElectionStep(r) /\ responsibility[r] = readyForTakeover
           /\ ResponsibleRows(icingadb_instance, env[r]) = {r})
          => /\ icingadb_instance'[r] =
                  [environment_id |-> env[r], heartbeat |-> now,
                   responsible |-> "y"]
             /\ responsibility'[r] = TakeoverNoSync
             /\ responsibleSince'[r] = now
    ]_vars

\* A replica alone in its environment was refused the demotion, saw its
\* upstream come back and is in TakeoverNoSync again by its next election.
C15_Witness ==
  \E r \in Replicas :
    /\ \A o \in Replicas \ {r} : pc[o] = "init"
    /\ faults.outage = 1
    /\ upstream[r]
    /\ now >= Epoch + AliveThreshold
    /\ responsibility[r] = TakeoverNoSync
    /\ responsibleSince[r] = now
    /\ Row(r).responsible = "y"

\* The election of r is the next step of its loop.
ElectionPending(r) ==
  pc[r] = "act" /\ nextAction[r] \in {tryTakeover, doTakeover}

\* C16: the decision of an election that finds at most one row of the
\* environment marked responsible: justTakenOver holds iff there is no such
\* row, or it is the own row, or it is a foreign row with a heartbeat
\* StaleThreshold (10) old or older; then the own row ends responsible, and
\* in the last case every other row of the environment ends not
\* responsible.  With a foreign incumbent that is fresher, justTakenOver is
\* false and nothing but the upsert is written.  Whatever the rows, a true
\* justTakenOver leaves the own row responsible and a false one writes
\* nothing but the upsert.  A replica in ReadyForTakeover whose election
\* finds only fresh foreign incumbents stays in ReadyForTakeover with its
\* row not responsible, and publishes nothing.
C16_ElectionDecision ==
  /\ [](\A r \in Replicas :
          ElectionPending(r) =>
            LET up == Upsert(icingadb_instance, r, env[r], now)
                rows == ResponsibleRows(up, env[r])
                stale == {i \in rows \ {r} : now - up[i].heartbeat >= StaleThreshold}
            IN \A out \in ElectionOutcomes(icingadb_instance, r, env[r], now) :
                 /\ out.justTakenOver => out.reg[r].responsible = "y"
                 /\ ~out.justTakenOver => out.reg = up
                 /\ Cardinality(rows) <= 1 =>
                      /\ out.justTakenOver
                           <=> (rows = {} \/ rows = {r} \/ stale # {})
                      /\ stale # {} =>
                           \A j \in Ids \ {r} :
                             (up[j] # NoRow /\ up[j].environment_id = env[r])
                             => out.reg[j].responsible = "n"
                      /\ (rows = {} \/ rows = {r}) =>
                           \A j \in Ids \ {r} : out.reg[j] = up[j])
  /\ [][\A r \in Replicas :
          LET up == Upsert(icingadb_instance, r, env[r], now)
              rows == ResponsibleRows(up, env[r])
          IN (ElectionStep(r) /\ responsibility[r] = readyForTakeover
              /\ rows # {}
              /\ \A i \in rows :
                   i # r /\ now - up[i].heartbeat < StaleThreshold)
             => /\ responsibility'[r] = readyForTakeover
                /\ responsibleSince'[r] = 0
                /\ icingadb_instance' = up
                /\ icingadb_instance'[r].responsible = "n"
                /\ ~published'[r]
       ]_vars

\* A standby has run its election against a fresh incumbent several
\* seconds into the run and is still in ReadyForTakeover, its row not
\* responsible.
C16_Witness ==
  \E r \in Replicas :
    /\ pc[r] = "wait" /\ nextAction[r] = tryTakeover
    /\ responsibility[r] = readyForTakeover
    /\ Row(r) = [environment_id |-> env[r], heartbeat |-> now,
                 responsible |-> "n"]
    /\ FreshPeerHolds(r)
    /\ ~published[r]
    /\ now >= Epoch + StaleThreshold

\* The edges of the responsibility state machine.
Edges ==
  {<<readyForTakeover, notReadyForTakeover>>,
   <<readyForTakeover, TakeoverNoSync>>,
   <<TakeoverNoSync, TakeoverSync>>,
   <<TakeoverNoSync, stop>>,
   <<TakeoverSync, stop>>,
   <<stop, notReadyForTakeover>>,
   <<notReadyForTakeover, readyForTakeover>>}

\* C17: every change of a responsibility is an edge of the state machine,
\* made by the step the edge belongs to: the state switch on the liveness
\* of the upstream, an election that leaves the own row responsible (and,
\* for TakeoverSync, ConfirmWindow after responsibleSince), or the cease
\* step with the gate drained when it was chosen.  An election in stop
\* leaves the state in stop.  A registry action ends the iteration, and an
\* iteration that has ended goes on only with a tick, of which there is one
\* per second.
C17_StateTable ==
  [][\A r \in Replicas :
       /\ responsibility'[r] # responsibility[r] =>
            /\ <<responsibility[r], responsibility'[r]>> \in Edges
            /\ CASE responsibility'[r] = stop ->
                      DecideStep(r) /\ ~icinga2IsAlive(r)
                 [] responsibility'[r] = readyForTakeover ->
                      DecideStep(r) /\ icinga2IsAlive(r)
                 [] responsibility'[r] = notReadyForTakeover
                    /\ responsibility[r] = readyForTakeover ->
                      DecideStep(r) /\ ~icinga2IsAlive(r)
                 [] responsibility'[r] = notReadyForTakeover
                    /\ responsibility[r] = stop ->
                      CeaseStep(r)
                 [] responsibility'[r] = TakeoverNoSync ->
                      /\ ElectionStep(r)
                      /\ icingadb_instance'[r].responsible = "y"
                 [] responsibility'[r] = TakeoverSync ->
                      /\ ElectionStep(r)
                      /\ icingadb_instance'[r].responsible = "y"
                      /\ now - responsibleSince[r] >= ConfirmWindow
       /\ (ElectionStep(r) /\ responsibility[r] = stop)
          => responsibility'[r] = stop
       /\ icingadb_instance'[r].heartbeat # icingadb_instance[r].heartbeat
          => (ElectionStep(r) \/ ~HasRow(r)')
       /\ (ElectionStep(r) \/ CeaseStep(r)) => pc'[r] = "wait"
       /\ (pc[r] \in {"wait", "skip"} /\ pc'[r] \in {"loop", "act"})
          => (tick[r] /\ ~tick'[r])
       /\ (~tick[r] /\ tick'[r]) => now' = now + 1
    ]_vars

\* A replica in stop has run an election that left its own row responsible
\* and is still in stop.
C17_Witness ==
  \E r \in Replicas :
    /\ responsibility[r] = stop
    /\ pc[r] = "wait" /\ nextAction[r] = doTakeover
    /\ Row(r) = [environment_id |-> env[r], heartbeat |-> now,
                 responsible |-> "y"]
    /\ runningCriticalOperations[r] > 0

\* The step of r that ends an iteration of its loop.
IterationEnds(r) == pc[r] = "act" /\ pc'[r] = "wait"

\* C18 as stated: the own row is created by the replica's first election
\* and gets the heartbeat of the tick in every iteration of the loop,
\* whatever the responsibility.
C18_HeartbeatEveryTick ==
  [][\A r \in Replicas :
       /\ (~HasRow(r) /\ HasRow(r)') => ElectionStep(r)
       /\ IterationEnds(r)
          => (HasRow(r)' /\ icingadb_instance'[r].heartbeat = now)
    ]_vars

\* C18 as amended: the own row is created by the replica's first election,
\* inserted as not responsible, and gets the heartbeat of the tick in
\* exactly the iterations that run an election (ReadyForTakeover,
\* TakeoverNoSync and TakeoverSync with the upstream alive, Stop while the
\* gate is not drained).  The iterations of NotReadyForTakeover run no
\* action and the cease transaction writes no heartbeat: there the
\* heartbeat stays what it was and ages.  After an election that was not
\* held up, the heartbeat is at most a second old until the next tick.
C18_HeartbeatOnElection ==
  /\ [][\A r \in Replicas :
          /\ (~HasRow(r) /\ HasRow(r)') => ElectionStep(r)
          /\ (ElectionStep(r) /\ ~HasRow(r))
             => Upsert(icingadb_instance, r, env[r], now)[r] =
                  [environment_id |-> env[r], heartbeat |-> now,
                   responsible |-> "n"]
          /\ IterationEnds(r) =>
               IF nextAction[r] \in {tryTakeover, doTakeover}
               THEN /\ HasRow(r)'
                    /\ icingadb_instance'[r].heartbeat = now
                    /\ icingadb_instance'[r].environment_id = env[r]
               ELSE icingadb_instance'[r].heartbeat =
                      icingadb_instance[r].heartbeat
          /\ (IterationEnds(r) /\ nextAction'[r] \in {noAction, ceaseOperation})
             => responsibility'[r] = notReadyForTakeover
       ]_vars
  /\ [](\A r \in Replicas :
          (pc[r] = "wait" /\ nextAction[r] \in {tryTakeover, doTakeover}
           /\ faults.stall = 0)
          => (HasRow(r) /\ now - Row(r).heartbeat <= 1))

\* A loop that is ticking in NotReadyForTakeover while the heartbeat of its
\* row is three seconds old.
C18_Witness ==
  \E r \in Replicas :
    /\ pc[r] = "wait" /\ nextAction[r] = noAction
    /\ responsibility[r] = notReadyForTakeover
    /\ HasRow(r)
    /\ now - Row(r).heartbeat = 3

\* C20: at the end of every iteration, and at every other moment,
\* responsibleSince is set exactly when the state is TakeoverNoSync,
\* TakeoverSync or stop.  It is set only by the election that enters
\* TakeoverNoSync, to the time of that election, and cleared only by the
\* cease step that enters NotReadyForTakeover; an election that finds a
\* fresh foreign incumbent leaves it as it is.
C20_SinceIffHolding ==
  /\ [](\A r \in Replicas : SinceMatchesState(r))
  /\ [][\A r \in Replicas :
          /\ (responsibleSince[r] = 0 /\ responsibleSince'[r] # 0)
             => /\ ElectionStep(r)
                /\ responsibleSince'[r] = now
                /\ responsibility[r] = readyForTakeover
                /\ responsibility'[r] = TakeoverNoSync
          /\ (responsibleSince[r] # 0 /\ responsibleSince'[r] # responsibleSince[r])
             => /\ CeaseStep(r)
                /\ responsibleSince'[r] = 0
                /\ responsibility[r] = stop
                /\ responsibility'[r] = notReadyForTakeover
          /\ (ElectionStep(r) /\ icingadb_instance'[r].responsible = "n")
             => /\ responsibleSince'[r] = responsibleSince[r]
                /\ responsibility'[r] = responsibility[r]
       ]_vars

\* A replica is still in TakeoverSync with responsibleSince set after its
\* election found the row taken by a peer.
C20_Witness ==
  \E r \in Replicas :
    /\ pc[r] = "wait" /\ nextAction[r] = doTakeover
    /\ responsibility[r] = TakeoverSync
    /\ responsibleSince[r] # 0
    /\ Row(r) = [environment_id |-> env[r], heartbeat |-> now,
                 responsible |-> "n"]

\* The rows of r's environment marked responsible that are not r's own.
ForeignIncumbents(r) == ResponsibleRows(icingadb_instance, env[r]) \ {r}

\* The owner of row i refreshes it no more: it is the dead replica, or its
\* loop has returned.
Silent(i) == IF i \in Replicas THEN Returned(i) ELSE TRUE

\* The loop of r is running and its environment channel is open.
Ticking(r) == pc[r] # "init" /\ ~Returned(r) /\ ~closed[r]

\* r stands by for an environment whose incumbents are all silent, early
\* enough for the takeover to complete before the clock of the model stops.
StandbyOfSilent(r) ==
  /\ Ticking(r)
  /\ responsibility[r] = readyForTakeover
  /\ ForeignIncumbents(r) # {}
  /\ ~(HasRow(r) /\ Row(r).responsible = "y")
  /\ \A i \in ForeignIncumbents(r) :
       /\ Silent(i)
       /\ Row(i).heartbeat + StaleThreshold + ConfirmWindow <= Epoch + MaxTime

\* A peer of r's environment holds the row.
PeerHolds(r) ==
  \E p \in Replicas \ {r} :
    /\ HasRow(p) /\ Row(p).environment_id = env[r] /\ Row(p).responsible = "y"

\* C19: failover.  A standby whose upstream is alive and whose transactions
\* succeed claims the row at the first election at which every foreign
\* incumbent of its environment is StaleThreshold (10) seconds old or
\* older, and not while one of them is fresher: its row becomes the only
\* responsible one, the state TakeoverNoSync and responsibleSince the
\* time of that election.  The first election ConfirmWindow (5) seconds
\* or more after that promotes it to TakeoverSync and publishes the
\* wakeup; ticking once a second that is exactly 5 s after the claim.
\* And it happens: a ticking standby of silent incumbents eventually is in
\* TakeoverSync with the wakeup published, unless its environment channel
\* is closed or a peer standby claims the row first.
C19_Failover ==
  /\ [][\A r \in Replicas :
          /\ ( /\ ElectionStep(r)
               /\ responsibility[r] = readyForTakeover
               /\ ForeignIncumbents(r) # {}
               /\ ~(HasRow(r) /\ Row(r).responsible = "y") )
             => IF \A i \in ForeignIncumbents(r) :
                     now - Row(i).heartbeat >= StaleThreshold
                THEN /\ icingadb_instance'[r] =
                          [environment_id |-> env[r], heartbeat |-> now,
                           responsible |-> "y"]
                     /\ ResponsibleRows(icingadb_instance', env[r]) = {r}
                     /\ responsibility'[r] = TakeoverNoSync
                     /\ responsibleSince'[r] = now
                     /\ ~published'[r]
                ELSE IF \A i \in ForeignIncumbents(r) :
                          now - Row(i).heartbeat < StaleThreshold
                     THEN /\ icingadb_instance'[r].responsible = "n"
                          /\ responsibility'[r] = readyForTakeover
                          /\ responsibleSince'[r] = 0
                     ELSE TRUE
          /\ ( /\ ElectionStep(r)
               /\ responsibility[r] = TakeoverNoSync
               /\ icingadb_instance'[r].responsible = "y" )
             => IF now - responsibleSince[r] >= ConfirmWindow
                THEN responsibility'[r] = TakeoverSync /\ published'[r]
                ELSE responsibility'[r] = TakeoverNoSync /\ ~published'[r]
          /\ (responsibility[r] = TakeoverNoSync
              /\ responsibility'[r] = TakeoverSync)
             => now = responsibleSince[r] + ConfirmWindow
       ]_vars
  /\ \A r \in Replicas :
       StandbyOfSilent(r)
         ~> \/ /\ responsibility[r] = TakeoverSync
               /\ published[r]
               /\ Row(r).responsible = "y"
            \/ closed[r]
            \/ PeerHolds(r)

\* Failover between two replicas: p had claimed the row and its loop has
\* returned; r claimed the row once p's heartbeat was StaleThreshold old
\* and has just been promoted to TakeoverSync, ConfirmWindow later, with
\* the wakeup published.
C19_Witness ==
  \E r \in Replicas, p \in Replicas :
    /\ p # r /\ Returned(p) /\ responsibleSince[p] # 0
    /\ HasRow(p) /\ Row(p).environment_id = env[r]
    /\ Row(p).responsible = "n"
    /\ responsibility[r] = TakeoverSync /\ published[r]
    /\ Row(r).responsible = "y"
    /\ responsibleSince[r] = Row(p).heartbeat + StaleThreshold
    /\ now = responsibleSince[r] + ConfirmWindow

====
